---------------------------- MODULE Spec2Model ----------------------------
(***************************************************************************)
(* A model of bandicoot/spatial.py: the spatial indicators                 *)
(* percent_at_home, radius_of_gyration, entropy_of_antennas,               *)
(* number_of_antennas, frequent_antennas, spatial_diversity, churn_rate.   *)
(*                                                                         *)
(* Every indicator is a pure function; the model calls one indicator on an *)
(* input drawn from a bounded set (one action per indicator, the whole     *)
(* body in one step) and keeps the input and the outcome in the state.     *)
(* Real numbers are exact fractions [num, den]; a square root and an       *)
(* entropy are kept symbolically (the radicand, the distribution).         *)
(* A division by zero ends the call with ZeroDivisionError, as in Python.  *)
(***************************************************************************)
EXTENDS Integers, Sequences, FiniteSets

\* ------------------------------------------------------------- bounds
\* Longest sequence of positions or of records handed to an indicator.
MaxLen == 3
\* Antenna ids are 1..NAnt.
NAnt == 2
\* Geocoded positions are <<lat, lon>> with lat in 0..MaxLat, lon in 0..MaxLon.
MaxLat == 1
MaxLon == 0
\* Call durations are 0..MaxDur.
MaxDur == 1
\* frequent_antennas: distinct keys 1..NKeys, each visited 0..MaxCount times,
\* percentage k / PctDen for k in 0..PctDen.
NKeys == 3
MaxCount == 5
PctDen == 10
\* churn_rate: at most MaxWeeks weeks with data, holding at most MaxBins
\* binned positions together.
MaxWeeks == 3
MaxBins == 5

\* ------------------------------------------------------------ helpers
Range(s) == {s[i] : i \in DOMAIN s}

BoundedSeq(S, n) == UNION {[1..k -> S] : k \in 0..n}

RECURSIVE GCD(_, _)
GCD(a, b) == IF b = 0 THEN a ELSE GCD(b, a % b)

Abs(x) == IF x < 0 THEN -x ELSE x

\* Exact fractions, kept in lowest terms with a positive denominator.
Frac(n, d) ==
    LET g == GCD(Abs(n), Abs(d))
        s == IF d < 0 THEN -1 ELSE 1
    IN [num |-> (s * n) \div g, den |-> (s * d) \div g]

FracAdd(a, b) == Frac(a.num * b.den + b.num * a.den, a.den * b.den)
FracSub(a, b) == Frac(a.num * b.den - b.num * a.den, a.den * b.den)
FracMul(a, b) == Frac(a.num * b.num, a.den * b.den)
FracInt(n) == [num |-> n, den |-> 1]

RECURSIVE SumOver(_, _)
SumOver(f, keys) ==
    IF keys = {} THEN 0
    ELSE LET k == CHOOSE x \in keys : TRUE
         IN f[k] + SumOver(f, keys \ {k})

\* sum(f.values()) of a mapping with integer values.
SumValues(f) == SumOver(f, DOMAIN f)

RECURSIVE FracSumOver(_, _)
FracSumOver(f, keys) ==
    IF keys = {} THEN FracInt(0)
    ELSE LET k == CHOOSE x \in keys : TRUE
         IN FracAdd(f[k], FracSumOver(f, keys \ {k}))

\* The sum of a mapping whose values are fractions.
FracSumValues(f) == FracSumOver(f, DOMAIN f)

\* collections.Counter over a sequence: key -> number of occurrences.
Counter(s) == [k \in Range(s) |-> Cardinality({i \in DOMAIN s : s[i] = k})]

\* ---------------------------------------------------------- data model
\* Python's None in the antenna field, and in the location field.
NoAntenna == 0
NoLoc == <<>>

Position(a, l) == [antenna |-> a, location |-> l]

Coords == {<<lat, lon>> : lat \in 0..MaxLat, lon \in 0..MaxLon}
AntennaPositions == {Position(a, NoLoc) : a \in 1..NAnt}
LocationPositions == {Position(NoAntenna, c) : c \in Coords}
EmptyPosition == Position(NoAntenna, NoLoc)
Positions == AntennaPositions \cup LocationPositions \cup {EmptyPosition}

\* Position equality (p == user.home): two positions are equal when they
\* carry the same identifier.
PositionEq(p, q) == p = q

\* p._get_location(user): the (lat, lon) pair, or NoLoc when not geocoded.
GetLocation(p) == p.location

\* str(position): the canonical string form, one per representation.
Str(p) == <<"Position", p.antenna, p.location>>

\* A user as percent_at_home reads it.
Users ==
    {[has_home |-> FALSE, home |-> EmptyPosition]}
        \cup {[has_home |-> TRUE, home |-> h] : h \in Positions}
NoUser == [has_home |-> FALSE, home |-> EmptyPosition]

\* Records: a call carries a duration, a text does not.
Records ==
    {[position |-> p, interaction |-> "call", call_duration |-> d] :
        p \in AntennaPositions, d \in 0..MaxDur}
        \cup {[position |-> p, interaction |-> "text", call_duration |-> 0] :
                p \in AntennaPositions}

\* The interaction argument of spatial_diversity; NoneArg is Python's None,
\* "sms" stands for any value the function does not accept.
NoneArg == "None"
InteractionArgs == {NoneArg, "call", "text", "call_duration", "sms"}

\* ------------------------------------------------------------- outcomes
NoneResult == [kind |-> "None"]
IntResult(v) == [kind |-> "int", val |-> v]
FloatResult(f) == [kind |-> "float", num |-> f.num, den |-> f.den]
Raise(e) == [kind |-> "raise", exc |-> e]
ZeroDivisionError == Raise("ZeroDivisionError")

\* a / b under "from __future__ import division".
TrueDiv(a, b) == IF b = 0 THEN ZeroDivisionError ELSE FloatResult(Frac(a, b))

VARIABLES
    pc,               \* "idle", "returned" or "raised"
    fn,               \* the indicator called
    positions,        \* the position sequence handed to it
    records,          \* the record sequence handed to it
    user,             \* the user handed to it
    interaction,      \* spatial_diversity's interaction argument
    percentage,       \* frequent_antennas' percentage, in units of 1/PctDen
    weekly_positions, \* churn_rate: the binned positions of each week with data
    location_sort,    \* frequent_antennas: the sorted keys before the loop
    result            \* the outcome of the call

vars == <<pc, fn, positions, records, user, interaction, percentage,
          weekly_positions, location_sort, result>>

Init ==
    /\ pc = "idle"
    /\ fn = "none"
    /\ positions = <<>>
    /\ records = <<>>
    /\ user = NoUser
    /\ interaction = NoneArg
    /\ percentage = 0
    /\ weekly_positions = <<>>
    /\ location_sort = <<>>
    /\ result = NoneResult

\* The position a call ends in: an exception propagates to the caller.
PcOf(r) == IF r.kind = "raise" THEN "raised" ELSE "returned"

\* The caller takes the outcome; the next call starts from the same state.
Return ==
    /\ pc \in {"returned", "raised"}
    /\ pc' = "idle"
    /\ fn' = "none"
    /\ positions' = <<>>
    /\ records' = <<>>
    /\ user' = NoUser
    /\ interaction' = NoneArg
    /\ percentage' = 0
    /\ weekly_positions' = <<>>
    /\ location_sort' = <<>>
    /\ result' = NoneResult

\* ------------------------------------------------------ percent_at_home
percent_at_home_NoEmptyGuard(ps, u) ==
    IF ~u.has_home THEN NoneResult
    ELSE IF u.home.antenna = NoAntenna /\ u.home.location = NoLoc THEN NoneResult
    ELSE TrueDiv(Cardinality({i \in DOMAIN ps : PositionEq(ps[i], u.home)}), Len(ps))

percent_at_home_NoFieldCheck(ps, u) ==
    IF ~u.has_home THEN NoneResult
    ELSE LET total_home == Cardinality({i \in DOMAIN ps : PositionEq(ps[i], u.home)})
         IN IF Len(ps) # 0 THEN TrueDiv(total_home, Len(ps)) ELSE IntResult(0)

percent_at_home(ps, u) ==
    IF ~u.has_home THEN NoneResult
    ELSE IF u.home.antenna = NoAntenna /\ u.home.location = NoLoc THEN NoneResult
    ELSE LET total_home == Cardinality({i \in DOMAIN ps : PositionEq(ps[i], u.home)})
         IN IF Len(ps) # 0 THEN TrueDiv(total_home, Len(ps)) ELSE IntResult(0)

Call_percent_at_home ==
    /\ pc = "idle"
    /\ \E ps \in BoundedSeq(Positions, MaxLen), u \in Users :
        /\ positions' = ps
        /\ user' = u
        /\ result' = percent_at_home(ps, u)
        /\ pc' = PcOf(result')
    /\ fn' = "percent_at_home"
    /\ UNCHANGED <<records, interaction, percentage, weekly_positions, location_sort>>

NextHome == Call_percent_at_home \/ Return
SpecHome == Init /\ [][NextHome]_vars


\* --------------------------------------------------- radius_of_gyration
\* great_circle_distance(barycenter, pos) ** 2.  The haversine formula is
\* outside the module; a planar metric stands for it, symmetric and zero on
\* identical inputs as the distance function is required to be.
GreatCircleDistanceSq(barycenter, pos) ==
    LET dlat == FracSub(barycenter[1], FracInt(pos[1]))
        dlon == FracSub(barycenter[2], FracInt(pos[2]))
    IN FracAdd(FracMul(dlat, dlat), FracMul(dlon, dlon))

\* d = Counter(p._get_location(user) for p in positions if ... is not None)
LocationCounter(ps) ==
    LET geocoded == SelectSeq(ps, LAMBDA p : GetLocation(p) # NoLoc)
    IN Counter([i \in DOMAIN geocoded |-> GetLocation(geocoded[i])])

\* barycenter[0] += pos[0] * t; barycenter[1] += pos[1] * t, over d.items()
BarycenterSums(d) ==
    <<SumValues([pos \in DOMAIN d |-> pos[1] * d[pos]]),
      SumValues([pos \in DOMAIN d |-> pos[2] * d[pos]])>>

\* barycenter[0] /= sum_weights; barycenter[1] /= sum_weights
Barycenter(d, sum_weights) ==
    LET sums == BarycenterSums(d)
    IN <<Frac(sums[1], sum_weights), Frac(sums[2], sum_weights)>>

\* float(t) / sum_weights * great_circle_distance(barycenter, pos) ** 2
GyrationTerm(d, sum_weights, barycenter, pos) ==
    FracMul(Frac(d[pos], sum_weights), GreatCircleDistanceSq(barycenter, pos))

\* The second loop over d.items(): r starts at 0. and each item's term is
\* added by two successive statements.
RECURSIVE GyrationLoop(_, _, _, _)
GyrationLoop(d, sum_weights, barycenter, todo) ==
    IF todo = {} THEN FracInt(0)
    ELSE LET pos == CHOOSE x \in todo : TRUE
             r0 == GyrationLoop(d, sum_weights, barycenter, todo \ {pos})
             r1 == FracAdd(r0, GyrationTerm(d, sum_weights, barycenter, pos))
             r2 == FracAdd(r1, GyrationTerm(d, sum_weights, barycenter, pos))
         IN r2

\* math.sqrt(r), kept as its radicand.
Sqrt(r) == [kind |-> "sqrt", num |-> r.num, den |-> r.den]

radius_of_gyration(ps) ==
    LET d == LocationCounter(ps)
        sum_weights == SumValues(d)
    IN IF Cardinality(DOMAIN d) = 0 THEN NoneResult
       ELSE IF sum_weights = 0 THEN ZeroDivisionError
       ELSE LET barycenter == Barycenter(d, sum_weights)
            IN Sqrt(GyrationLoop(d, sum_weights, barycenter, DOMAIN d))

Call_radius_of_gyration ==
    /\ pc = "idle"
    /\ \E ps \in BoundedSeq(Positions, MaxLen) :
        /\ positions' = ps
        /\ result' = radius_of_gyration(ps)
        /\ pc' = PcOf(result')
    /\ fn' = "radius_of_gyration"
    /\ UNCHANGED <<records, user, interaction, percentage, weekly_positions, location_sort>>

\* -------------------------------------------------- entropy_of_antennas
\* entropy(data) of helper.tools: no value for an empty distribution,
\* otherwise -sum(p * ln p) with p = mass / total mass, kept as the
\* distribution it summarizes; the division by the total mass fails when
\* the total is 0.
entropy(data) ==
    IF DOMAIN data = {} THEN NoneResult
    ELSE IF SumValues(data) = 0 THEN ZeroDivisionError
    ELSE [kind |-> "entropy", data |-> data]

entropy_of_antennas(ps) == entropy(Counter(ps))

Call_entropy_of_antennas ==
    /\ pc = "idle"
    /\ \E ps \in BoundedSeq(Positions, MaxLen) :
        /\ positions' = ps
        /\ result' = entropy_of_antennas(ps)
        /\ pc' = PcOf(result')
    /\ fn' = "entropy_of_antennas"
    /\ UNCHANGED <<records, user, interaction, percentage, weekly_positions, location_sort>>

\* --------------------------------------------------- number_of_antennas
number_of_antennas(rs) ==
    IntResult(Cardinality({rs[i].position : i \in DOMAIN rs}))

Call_number_of_antennas ==
    /\ pc = "idle"
    /\ \E rs \in BoundedSeq(Records, MaxLen) :
        /\ records' = rs
        /\ result' = number_of_antennas(rs)
        /\ pc' = PcOf(result')
    /\ fn' = "number_of_antennas"
    /\ UNCHANGED <<positions, user, interaction, percentage, weekly_positions, location_sort>>

NextGyration == Call_radius_of_gyration \/ Return
SpecGyration == Init /\ [][NextGyration]_vars


\* ---------------------------------------------------- frequent_antennas
\* The inputs: NKeys distinct positions, position k visited c[k] times.
\* The Counter depends on the multiset of positions only, so one sequence
\* stands for each multiset; the order of its keys is drawn in SortedKeys.
FreqPosition(k) == Position(k, NoLoc)

RECURSIVE SeqFromCounts(_, _)
SeqFromCounts(c, k) ==
    IF k > NKeys THEN <<>>
    ELSE [i \in 1..c[k] |-> FreqPosition(k)] \o SeqFromCounts(c, k + 1)

FreqInputs == {SeqFromCounts(c, 1) : c \in [1..NKeys -> 0..MaxCount]}

\* location_count = Counter(map(str, positions))
LocationCount(ps) == Counter([i \in DOMAIN ps |-> Str(ps[i])])

\* math.ceil(n / d) for n >= 0, d > 0.
CeilDiv(n, d) == (n + d - 1) \div d

TargetFloor(location_count, pct) == (SumValues(location_count) * pct) \div PctDen

\* target = math.ceil(sum(location_count.values()) * percentage)
Target(location_count, pct) == CeilDiv(SumValues(location_count) * pct, PctDen)

Permutations(S) ==
    {s \in [1..Cardinality(S) -> S] : \A i, j \in DOMAIN s : i # j => s[i] # s[j]}

UnsortedKeys(location_count) == Permutations(DOMAIN location_count)

\* sorted(location_count.keys(), key=lambda x: location_count[x]): ascending
\* by count; keys of equal count stay in the order the dictionary yields
\* them, which can be any order.
SortedKeys(location_count) ==
    {s \in Permutations(DOMAIN location_count) :
        \A i, j \in DOMAIN s : i < j => location_count[s[i]] <= location_count[s[j]]}

\* while target > 0 and len(location_sort) > 0: pop the last key and
\* subtract its count.  The value is location_sort when the loop ends.
RECURSIVE RemovalLoop(_, _, _)
RemovalLoop(target, ls, location_count) ==
    IF target > 0 /\ Len(ls) > 0
    THEN LET location_id == ls[Len(ls)]
         IN RemovalLoop(target - location_count[location_id],
                        SubSeq(ls, 1, Len(ls) - 1), location_count)
    ELSE ls

frequent_antennas(ps, pct, ls) ==
    LET location_count == LocationCount(ps)
        target == Target(location_count, pct)
    IN IntResult(Cardinality(DOMAIN location_count)
                    - Len(RemovalLoop(target, ls, location_count)))

Call_frequent_antennas ==
    /\ pc = "idle"
    /\ \E ps \in FreqInputs, pct \in 0..PctDen :
        \E ls \in SortedKeys(LocationCount(ps)) :
            /\ positions' = ps
            /\ percentage' = pct
            /\ location_sort' = ls
            /\ result' = frequent_antennas(ps, pct, ls)
            /\ pc' = PcOf(result')
    /\ fn' = "frequent_antennas"
    /\ UNCHANGED <<records, user, interaction, weekly_positions>>

NextFrequent == Call_frequent_antennas \/ Return
SpecFrequent == Init /\ [][NextFrequent]_vars

\* ---------------------------------------------------- spatial_diversity
CallIndexes(rs, p) ==
    {i \in DOMAIN rs : rs[i].interaction = "call" /\ rs[i].position = p}

\* counter[r.position] += r.call_duration for every call: a position gets a
\* key as soon as one call is seen there, whatever the durations add up to.
DurationCounter(rs) ==
    [p \in {rs[i].position : i \in {j \in DOMAIN rs : rs[j].interaction = "call"}} |->
        SumValues([i \in CallIndexes(rs, p) |-> rs[i].call_duration])]

PositionsOf(rs) == [i \in DOMAIN rs |-> rs[i].position]

\* entropy(interactions) / math.log(len(interactions))
DivByLog(e, n) ==
    IF e.kind = "raise" THEN e
    ELSE IF n = 0 THEN Raise("ValueError")
    ELSE IF e.kind = "None" THEN Raise("TypeError")
    ELSE IF n = 1 THEN ZeroDivisionError
    ELSE [kind |-> "normalized_entropy", data |-> e.data, categories |-> n]

NormalizedOrNone(interactions) ==
    IF Cardinality(DOMAIN interactions) > 1
    THEN DivByLog(entropy(interactions), Cardinality(DOMAIN interactions))
    ELSE NoneResult

spatial_diversity_ValidateFirst(rs, inter) ==
    IF inter \notin {NoneArg, "call", "text", "call_duration"} THEN Raise("ValueError")
    ELSE IF Len(rs) <= 1 THEN NoneResult
    ELSE IF inter = NoneArg THEN NormalizedOrNone(Counter(PositionsOf(rs)))
    ELSE IF inter \in {"call", "text"}
        THEN NormalizedOrNone(
                Counter(PositionsOf(SelectSeq(rs, LAMBDA r : r.interaction = inter))))
    ELSE NormalizedOrNone(DurationCounter(rs))

spatial_diversity(rs, inter) ==
    IF Len(rs) <= 1 THEN NoneResult
    ELSE IF inter = NoneArg THEN NormalizedOrNone(Counter(PositionsOf(rs)))
    ELSE IF inter \in {"call", "text"}
        THEN NormalizedOrNone(
                Counter(PositionsOf(SelectSeq(rs, LAMBDA r : r.interaction = inter))))
    ELSE IF inter = "call_duration" THEN NormalizedOrNone(DurationCounter(rs))
    ELSE Raise("ValueError")

Call_spatial_diversity ==
    /\ pc = "idle"
    /\ \E rs \in BoundedSeq(Records, MaxLen), inter \in InteractionArgs :
        /\ records' = rs
        /\ interaction' = inter
        /\ result' = spatial_diversity(rs, inter)
        /\ pc' = PcOf(result')
    /\ fn' = "spatial_diversity"
    /\ UNCHANGED <<positions, user, percentage, weekly_positions, location_sort>>

NextDiversity == Call_spatial_diversity \/ Return
SpecDiversity == Init /\ [][NextDiversity]_vars

\* ----------------------------------------------------------- churn_rate
\* One week with data, after binning: at least one position.  The weekly
\* Counter depends on the multiset only, so one sequence stands for each.
Weeks ==
    {w \in BoundedSeq(AntennaPositions, MaxBins) :
        /\ Len(w) >= 1
        /\ \A i, j \in DOMAIN w : i < j => w[i].antenna <= w[j].antenna}

\* The weekly position lists of a user with at most bins binned positions
\* spread over at most weeks weeks, in week order.
RECURSIVE WeeklyInputsWithin(_, _)
WeeklyInputsWithin(bins, weeks) ==
    IF weeks = 0 \/ bins = 0 THEN {<<>>}
    ELSE {<<>>} \cup
         UNION {{<<w>> \o rest : rest \in WeeklyInputsWithin(bins - Len(w), weeks - 1)} :
                w \in {x \in Weeks : Len(x) <= bins}}

WeeklyInputs == WeeklyInputsWithin(MaxBins, MaxWeeks)

\* all_positions = list(set(p for l in weekly_positions for p in l))
AllPositions(wp) == UNION {Range(wp[w]) : w \in DOMAIN wp}

\* frequencies[week] = [count.get(p, 0) / total for p in all_positions]:
\* the divisions fail when the week's total is 0 and there is a position to
\* divide for.
WeekFrequencies(week_positions, all_positions) ==
    LET count == Counter(week_positions)
        total == SumValues(count)
    IN IF total = 0 /\ all_positions # {} THEN ZeroDivisionError
       ELSE [kind |-> "list",
             at |-> [p \in all_positions |->
                        Frac(IF p \in DOMAIN count THEN count[p] ELSE 0, total)]]

\* pairwise(iterable) of helper.tools: (s0, s1), (s1, s2), ...
pairwise(s) == [i \in 1..(Len(s) - 1) |-> <<s[i], s[i + 1]>>]

SumOfFrequencies(f) == FracSumValues(f)

\* sum(f ** 2 for f in f_1)
SumOfSquares(f) == FracSumValues([a \in DOMAIN f |-> FracMul(f[a], f[a])])

CosineDistance_OneNorm(f_1, f_2) ==
    LET num == FracSumValues([a \in DOMAIN f_1 |-> FracMul(f_1[a], f_2[a])])
        denom_1 == SumOfSquares(f_1)
        denom_2 == SumOfSquares(f_1)
    IN IF denom_1.num = 0 \/ denom_2.num = 0 THEN ZeroDivisionError
       ELSE [kind |-> "cosine_distance", num |-> num,
             denom_1 |-> denom_1, denom_2 |-> denom_2]

\* 1 - num / (denom_1 ** .5 * denom_2 ** .5), kept as its three terms; the
\* division fails when a vector has no non-zero entry.
CosineDistance(f_1, f_2) ==
    LET num == FracSumValues([a \in DOMAIN f_1 |-> FracMul(f_1[a], f_2[a])])
        denom_1 == SumOfSquares(f_1)
        denom_2 == SumOfSquares(f_2)
    IN IF denom_1.num = 0 \/ denom_2.num = 0 THEN ZeroDivisionError
       ELSE [kind |-> "cosine_distance", num |-> num,
             denom_1 |-> denom_1, denom_2 |-> denom_2]

\* statistics(cos_dist, summary=summary) of helper.group, kept as its input.
statistics(values, summary) ==
    [kind |-> "statistics", values |-> values, summary |-> summary]

\* churn_rate reads len(user.records), then the weeks group_records and
\* _binning make of the records: no record, no week.  frequencies is keyed
\* by the week number, filled in week order, and frequencies.values() yields
\* the vectors in that order.
churn_rate(wp) ==
    IF Len(wp) = 0 THEN NoneResult
    ELSE LET all_positions == AllPositions(wp)
             frequencies == [week \in DOMAIN wp |-> WeekFrequencies(wp[week], all_positions)]
         IN IF \E week \in DOMAIN wp : frequencies[week].kind = "raise"
            THEN ZeroDivisionError
            ELSE LET pairs == pairwise(frequencies)
                     cos_dist == [i \in DOMAIN pairs |->
                                    CosineDistance(pairs[i][1].at, pairs[i][2].at)]
                 IN IF \E i \in DOMAIN cos_dist : cos_dist[i].kind = "raise"
                    THEN ZeroDivisionError
                    ELSE statistics(cos_dist, "default")

Call_churn_rate ==
    /\ pc = "idle"
    /\ \E wp \in WeeklyInputs :
        /\ weekly_positions' = wp
        /\ result' = churn_rate(wp)
        /\ pc' = PcOf(result')
    /\ fn' = "churn_rate"
    /\ UNCHANGED <<positions, records, user, interaction, percentage, location_sort>>

NextChurn == Call_churn_rate \/ Return
SpecChurn == Init /\ [][NextChurn]_vars

\* ------------------------------------------------------ every indicator
Next ==
    \/ Call_percent_at_home
    \/ Call_radius_of_gyration
    \/ Call_entropy_of_antennas
    \/ Call_number_of_antennas
    \/ Call_frequent_antennas
    \/ Call_spatial_diversity
    \/ Call_churn_rate
    \/ Return

Spec == Init /\ [][Next]_vars


\* ================================================================ claims

\* ------------------------------------------------------------------ C1
HomeIsValid(u) ==
    u.has_home /\ ~(u.home.antenna = NoAntenna /\ u.home.location = NoLoc)

AtHome(ps, u) == Cardinality({i \in DOMAIN ps : ps[i] = u.home})

\* C1: percent_at_home has exactly three outcomes: no value when the user
\* has no home or the home has neither an antenna id nor coordinates
\* (whatever the sequence holds); exactly 0 when a valid home exists and the
\* sequence is empty; otherwise (positions equal to home) / (length of the
\* sequence), which lies in [0, 1].
C1_PercentAtHomeOutcomes ==
    (fn = "percent_at_home" /\ pc # "idle") =>
        /\ pc = "returned"
        /\ IF ~HomeIsValid(user) THEN result = NoneResult
           ELSE IF positions = <<>> THEN result = IntResult(0)
           ELSE /\ result.kind = "float"
                /\ result.den > 0
                /\ result.num * Len(positions) = AtHome(positions, user) * result.den
                /\ 0 <= result.num /\ result.num <= result.den

\* A valid home, a non-empty sequence, part of it at home.
C1_Witness ==
    /\ fn = "percent_at_home" /\ pc = "returned"
    /\ HomeIsValid(user) /\ Len(positions) = 3
    /\ result.kind = "float" /\ result.num = 1 /\ result.den = 3

\* ------------------------------------------------------------------ C2
Max(S) == CHOOSE x \in S : \A y \in S : y <= x

\* The sum of the k largest visit counts.
TopKSum(counts, k) ==
    Max({SumOver(counts, S) : S \in {T \in SUBSET DOMAIN counts : Cardinality(T) = k}})

\* k of the most visited locations reach percentage of all visits; for
\* whole numbers, sum >= ceil(x) is sum >= x.
Reaches(counts, pct, k) == PctDen * TopKSum(counts, k) >= pct * SumValues(counts)

\* The keys the loop removed, in location_sort order: its last k keys.
RemovedKeys(ls, k) == SubSeq(ls, Len(ls) - k + 1, Len(ls))

\* C2: frequent_antennas returns the minimal number k of locations such that
\* the k largest visit counts sum to at least ceil(percentage * total
\* visits): the keys are removed in non-increasing count order, the loop
\* stops as soon as the target is reached or no key remains, and the value
\* returned is the number of keys removed.
C2_MinimalCover ==
    (fn = "frequent_antennas" /\ pc # "idle") =>
        LET counts == LocationCount(positions)
            n == Cardinality(DOMAIN counts)
            k == result.val
            removed == RemovedKeys(location_sort, k)
        IN /\ pc = "returned" /\ result.kind = "int"
           /\ k \in 0..n
           /\ Reaches(counts, percentage, k)
           /\ \A j \in 0..(k - 1) : ~Reaches(counts, percentage, j)
           /\ \A i, j \in DOMAIN removed : i < j => counts[removed[i]] <= counts[removed[j]]
           /\ SumOver(counts, Range(removed)) = TopKSum(counts, k)

\* Counts 5, 3 and 2 with percentage 0.8: two locations.
C2_Witness ==
    /\ fn = "frequent_antennas" /\ pc = "returned"
    /\ 5 * percentage = 4 * PctDen
    /\ LET counts == LocationCount(positions)
       IN /\ Cardinality(DOMAIN counts) = 3
          /\ {counts[x] : x \in DOMAIN counts} = {5, 3, 2}
    /\ result = IntResult(2)

\* ----------------------------------------------------------------- C10
AscendingByCount(o, counts) ==
    \A i, j \in DOMAIN o : i < j => counts[o[i]] <= counts[o[j]]

\* C10: the value of frequent_antennas does not depend on how ties are
\* broken: every ordering of the distinct keys that is ascending by visit
\* count makes the removal loop return the number the call returned.
C10_TieIndependent ==
    (fn = "frequent_antennas" /\ pc # "idle") =>
        LET counts == LocationCount(positions)
        IN \A o \in Permutations(DOMAIN counts) :
              AscendingByCount(o, counts) =>
                  result = IntResult(Cardinality(DOMAIN counts)
                              - Len(RemovalLoop(Target(counts, percentage), o, counts)))

\* A tie at the place the loop stopped: the last key kept and the first key
\* removed have the same count.
C10_Witness ==
    /\ fn = "frequent_antennas" /\ pc = "returned"
    /\ result.val >= 1 /\ result.val < Len(location_sort)
    /\ LET counts == LocationCount(positions)
           cut == Len(location_sort) - result.val
       IN counts[location_sort[cut]] = counts[location_sort[cut + 1]]

\* ------------------------------------------------------------------ C3
ValidInteractions == {NoneArg, "call", "text", "call_duration"}

\* C3 as stated: spatial_diversity raises the invalid-argument error whenever
\* its interaction argument is outside the accepted values, for every record
\* sequence, including sequences of zero or one record.
C3_AlwaysRaises ==
    (fn = "spatial_diversity" /\ pc # "idle" /\ interaction \notin ValidInteractions) =>
        (pc = "raised" /\ result = Raise("ValueError"))

\* C3, amended: with an interaction argument outside the accepted values,
\* spatial_diversity raises the invalid-argument error when the sequence has
\* at least 2 records, and returns no value when it has fewer than 2.
C3_RaisesFromTwoRecords ==
    (fn = "spatial_diversity" /\ pc # "idle" /\ interaction \notin ValidInteractions) =>
        IF Len(records) >= 2
        THEN pc = "raised" /\ result = Raise("ValueError")
        ELSE pc = "returned" /\ result = NoneResult

C3_Witness ==
    /\ fn = "spatial_diversity" /\ pc = "raised"
    /\ interaction \notin ValidInteractions
    /\ Len(records) >= 2
    /\ result = Raise("ValueError")

\* ------------------------------------------------------------------ C4
\* The mass the selected frequency mapping gives a position.
Mass(rs, inter, p) ==
    IF inter = NoneArg THEN Cardinality({i \in DOMAIN rs : rs[i].position = p})
    ELSE IF inter = "call_duration"
        THEN SumOver([i \in DOMAIN rs |-> rs[i].call_duration], CallIndexes(rs, p))
    ELSE Cardinality({i \in DOMAIN rs : rs[i].position = p /\ rs[i].interaction = inter})

NonZeroCategories(rs, inter) ==
    {p \in {rs[i].position : i \in DOMAIN rs} : Mass(rs, inter, p) # 0}

\* C4: spatial_diversity returns no value whenever the sequence has fewer
\* than 2 records, and whenever the frequency mapping selected by a valid
\* interaction argument has fewer than 2 categories of non-zero mass
\* (positions whose summed call duration is 0 are no categories).
C4_NoneBelowTwoCategories ==
    (/\ fn = "spatial_diversity" /\ pc # "idle"
     /\ interaction \in ValidInteractions
     /\ \/ Len(records) < 2
        \/ Cardinality(NonZeroCategories(records, interaction)) < 2) =>
        (pc = "returned" /\ result = NoneResult)

\* ------------------------------------------------------------------ C5
\* C5: the square of the radius of gyration times the number of geocoded
\* visits equals the sum, over the distinct geocoded positions, of
\* count * d(barycenter, position)^2, each position counted once.
C5_WeightedMeanSquare ==
    (fn = "radius_of_gyration" /\ pc # "idle" /\ LocationCounter(positions) # <<>>) =>
        LET d == LocationCounter(positions)
            total == SumValues(d)
            barycenter == Barycenter(d, total)
        IN /\ pc = "returned" /\ result.kind = "sqrt"
           /\ FracMul([num |-> result.num, den |-> result.den], FracInt(total))
                = FracSumValues([pos \in DOMAIN d |->
                    FracMul(FracInt(d[pos]), GreatCircleDistanceSq(barycenter, pos))])

\* ------------------------------------------------------------------ C6
\* How often position p occurs in a week.
WeekCount(week, p) == Cardinality({i \in DOMAIN week : week[i] = p})

\* Sum over the universe of positions of the products of two weeks' counts.
CountProduct(wp, i, j) ==
    SumOver([p \in AllPositions(wp) |-> WeekCount(wp[i], p) * WeekCount(wp[j], p)],
            AllPositions(wp))

\* v is the cosine distance between the frequency vectors of weeks i and j,
\* both over the universe of all positions: its numerator is the dot
\* product of the proportions, its two denominators their squared norms.
IsCosineOfWeeks(v, wp, i, j) ==
    /\ v.kind = "cosine_distance"
    /\ v.num.num * (Len(wp[i]) * Len(wp[j])) = v.num.den * CountProduct(wp, i, j)
    /\ v.denom_1.num * (Len(wp[i]) * Len(wp[i])) = v.denom_1.den * CountProduct(wp, i, i)
    /\ v.denom_2.num * (Len(wp[j]) * Len(wp[j])) = v.denom_2.den * CountProduct(wp, j, j)

HandsConsecutiveDistances(wp, r) ==
    /\ r.kind = "statistics"
    /\ Len(r.values) = (IF Len(wp) < 2 THEN 0 ELSE Len(wp) - 1)
    /\ \A i \in DOMAIN r.values : IsCosineOfWeeks(r.values[i], wp, i, i + 1)

\* C6 as stated: with W weeks with data, churn_rate hands statistics exactly
\* W-1 cosine distances, the i-th between weeks i and i+1; when W < 2 the
\* sequence handed over is empty and churn_rate returns what statistics
\* returns for it, without a special case.
C6_AlwaysHandsDistances ==
    (fn = "churn_rate" /\ pc # "idle") =>
        (pc = "returned" /\ HandsConsecutiveDistances(weekly_positions, result))

\* C6, amended: the same for W >= 1; with no record at all (W = 0)
\* churn_rate returns no value without calling statistics.
C6_HandsDistancesWhenRecords ==
    (fn = "churn_rate" /\ pc # "idle") =>
        /\ pc = "returned"
        /\ IF Len(weekly_positions) = 0 THEN result = NoneResult
           ELSE HandsConsecutiveDistances(weekly_positions, result)

\* Three weeks, no two consecutive ones alike: two distances handed over.
C6_Witness ==
    /\ fn = "churn_rate" /\ pc = "returned"
    /\ Len(weekly_positions) = 3
    /\ weekly_positions[1] # weekly_positions[2]
    /\ weekly_positions[2] # weekly_positions[3]
    /\ weekly_positions[1] # weekly_positions[3]
    /\ result.kind = "statistics" /\ Len(result.values) = 2
    /\ result.values[1] # result.values[2]

\* ------------------------------------------------------------------ C7
\* Two weeks give every position the same proportion.
SameDistribution(wp, i, j) ==
    \A p \in AllPositions(wp) :
        WeekCount(wp[i], p) * Len(wp[j]) = WeekCount(wp[j], p) * Len(wp[i])

\* 1 - num / (denom_1 ** .5 * denom_2 ** .5) is 0 in exact arithmetic.
IsZeroDistance(v) ==
    /\ v.kind = "cosine_distance"
    /\ v.num.num >= 0
    /\ FracMul(v.num, v.num) = FracMul(v.denom_1, v.denom_2)

C8_NoDivisionByZero == ~(pc = "raised" /\ result = ZeroDivisionError)

\* ------------------------------------------------------------------ C9
\* The call at hand was given an empty input sequence.
EmptyInput ==
    /\ pc # "idle"
    /\ IF fn \in {"percent_at_home", "radius_of_gyration", "entropy_of_antennas",
                  "frequent_antennas"}
       THEN positions = <<>>
       ELSE IF fn \in {"number_of_antennas", "spatial_diversity"} THEN records = <<>>
       ELSE weekly_positions = <<>>

\* C9 as stated: every indicator, given an empty input sequence, returns no
\* value and raises no exception.
C9_EmptyGivesNone == EmptyInput => (pc = "returned" /\ result = NoneResult)

\* C9, amended: given an empty input sequence no indicator raises;
\* radius_of_gyration, spatial_diversity and churn_rate return no value,
\* percent_at_home returns no value without a valid home and 0 with one,
\* number_of_antennas and frequent_antennas return 0, and
\* entropy_of_antennas returns what the entropy helper returns for an empty
\* distribution.
C9_EmptyNeverRaises ==
    EmptyInput =>
        /\ pc = "returned"
        /\ result =
            IF fn = "percent_at_home"
                THEN (IF HomeIsValid(user) THEN IntResult(0) ELSE NoneResult)
            ELSE IF fn \in {"number_of_antennas", "frequent_antennas"} THEN IntResult(0)
            ELSE IF fn = "entropy_of_antennas" THEN entropy(<<>>)
            ELSE NoneResult

\* number_of_antennas on no record: 0, not "no value".
C9_Witness ==
    /\ fn = "number_of_antennas" /\ pc = "returned"
    /\ records = <<>>
    /\ result = IntResult(0)

=============================================================================
